---- MODULE Spec2Model ----
(***************************************************************************)
(* A model of @neptune3d/electron-ipc: createIpcApi (src/src/createIpcApi.ts) *)
(* and the action descriptors (src/src/actions.ts), run against Electron's  *)
(* ipcRenderer / ipcMain / webContents / contextBridge primitives.          *)
(*                                                                         *)
(* All payloads, results and errors are strings, so that any two of them    *)
(* can be compared.                                                         *)
(***************************************************************************)
EXTENDS Integers, Sequences, FiniteSets, TLC

(***************************************************************************)
(* Bounds of the model.                                                     *)
(***************************************************************************)
\* operations an application performs in one run: calls of main.fromRenderer,
\* calls of renderer.fromMain, renderer calls and main pushes together
MaxOps == 3

(***************************************************************************)
(* Values.                                                                  *)
(***************************************************************************)
\* the payload of the n-th message an application issues
ArgOf(n) == CASE n = 1 -> "41" [] n = 2 -> "42" [] n = 3 -> "43" [] OTHER -> "44"

Args == {ArgOf(n) : n \in 1..4}

\* what a function without a return statement yields
Undefined == "undefined"

\* the README's fetchData handler: ({ id }) => ({ name: `Item ${id}` })
HandlerResult(arg) == "Item " \o arg

\* the error an application handler fails with on argument arg
HandlerError(arg) == "Error: failed " \o arg

\* handlers[key](arg, e) where handlers[key] is undefined
NotAFunction == "TypeError: handlers[key] is not a function"

\* window[ipcKey][...] where window[ipcKey] is undefined
NoBridge == "TypeError: Cannot read properties of undefined"

\* window[ipcKey][`m_${key}`](arg) or window[ipcKey][`r_${key}`](cb) where the
\* bridge object has no such property
NoBridgeCallable == "TypeError: window[ipcKey][key] is not a function"

\* ipcRenderer.invoke on a channel nobody handles
NoHandler(chan) == "Error: No handler registered for '" \o chan \o "'"

\* ipcMain.handle on a channel that already has a handler
SecondHandler(chan) == "Error: Attempted to register a second handler for '" \o chan \o "'"

\* contextBridge.exposeInMainWorld on a key that is already bound
AlreadyBound == "Error: Cannot bind an API on top of an existing property on the window object"

\* the event-metadata argument the transport hands to its listeners
EventMeta == "event"

(***************************************************************************)
(* Action descriptors (actions.ts) and API tables.                          *)
(***************************************************************************)
twoWayAction == [type |-> "twoWay", arg |-> "null", result |-> "null"]

oneWayAction == [type |-> "oneWay", arg |-> "null", result |-> "none"]

\* one entry of an API table: Object.keys order is the order of the sequence
Entry(k, a) == [key |-> k, action |-> a]

Windows == {"w1", "w2"}

ContractIds == {"c1", "c2"}

IpcKeys == {"myIpc", "otherIpc"}

\* the README's contract
ReadmeProps ==
  [ipcKey |-> "myIpc",
   toMain |-> <<Entry("logMessage", oneWayAction), Entry("fetchData", twoWayAction)>>,
   toRender |-> <<Entry("notify", oneWayAction)>>]

\* a contract that only pushes to renderers
PushProps ==
  [ipcKey |-> "myIpc",
   toMain |-> <<>>,
   toRender |-> <<Entry("notify", oneWayAction)>>]

\* two contracts whose action names overlap; "logMessage" is in both tables of c2
LogProps ==
  [ipcKey |-> "myIpc",
   toMain |-> <<Entry("logMessage", oneWayAction)>>,
   toRender |-> <<>>]

OtherProps ==
  [ipcKey |-> "otherIpc",
   toMain |-> <<Entry("logMessage", oneWayAction)>>,
   toRender |-> <<Entry("logMessage", oneWayAction)>>]

\* Object.keys(table)
Keys(table) == {table[i].key : i \in 1..Len(table)}

\* table[key]
Lookup(table, k) == (CHOOSE i \in 1..Len(table) : table[i].key = k)

TypeOf(table, k) == table[Lookup(table, k)].action.type


\* the handler maps an application may hand to main.fromRenderer: complete, or
\* lacking one declared key
HandlerMaps(table) == {Keys(table)} \cup {Keys(table) \ {k} : k \in Keys(table)}

\* the applications the model runs: the contracts they create, their windows,
\* and whether their Handler Maps may lack a key
Deployments ==
  { [apis |-> [c \in {"c1"} |-> ReadmeProps], wins |-> {"w1"}, partial |-> TRUE],
    [apis |-> [c \in {"c1"} |-> PushProps], wins |-> {"w1", "w2"}, partial |-> FALSE],
    [apis |-> [c \in {"c1", "c2"} |-> IF c = "c1" THEN LogProps ELSE OtherProps],
     wins |-> {"w1"}, partial |-> FALSE],
    [apis |-> [c \in {"c1", "c2"} |-> IF c = "c1" THEN LogProps ELSE PushProps],
     wins |-> {"w1"}, partial |-> FALSE] }

(***************************************************************************)
(* State.                                                                   *)
(***************************************************************************)
VARIABLES
  apis,       \* contract id -> the props createIpcApi closed over
  wins,       \* the windows (one renderer each) of the application
  senders,    \* the <<contract, window>> pairs main.toRenderer() was called for
  partial,    \* whether the application passes Handler Maps that lack a key
  global,     \* window -> ipcKey -> what the renderer's global scope holds
  exposeLog,  \* window -> the exposeInMainWorld calls made there, in order
  preloaded,  \* the <<contract, window>> pairs preload() has run for
  mainHandle, \* ipcMain's handle registry: at most one wrapper per channel
  mainOn,     \* ipcMain's on listeners, in registration order
  regs,       \* the fromRenderer calls made: contract and Handler Map
  rendOn,     \* window -> ipcRenderer's on listeners, in registration order
  subs,       \* the fromMain calls made: contract, window and handler map
  calls,      \* every renderer call and main push issued, with its progress
  invs,       \* every invocation of an application handler
  uncaught    \* errors thrown out of a listener or out of a setup call

\* the operations performed so far
Ops == Len(regs) + Len(subs) + Len(calls)

vars == <<apis, wins, senders, partial, global, exposeLog, preloaded, mainHandle, mainOn, regs,
          rendOn, subs, calls, invs, uncaught>>

Unbound == [bound |-> FALSE, obj |-> {}]

Init ==
  /\ \E d \in Deployments : apis = d.apis /\ wins = d.wins /\ partial = d.partial
  /\ global = [w \in Windows |-> [k \in IpcKeys |-> Unbound]]
  /\ exposeLog = [w \in Windows |-> <<>>]
  /\ preloaded = {}
  /\ senders = {}
  /\ mainHandle = {}
  /\ mainOn = <<>>
  /\ regs = <<>>
  /\ rendOn = [w \in Windows |-> <<>>]
  /\ subs = <<>>
  /\ calls = <<>>
  /\ invs = {}
  /\ uncaught = {}

(***************************************************************************)
(* Naming on the bridge object and on the transport.                        *)
(***************************************************************************)
\* `m_${key}`
ToMainName(key) == "m_" \o key

\* `r_${key}`
ToRenderName(key) == "r_" \o key

\* a bridge that passes the exposed name on as the channel
BridgeChannelPrefixed(key) == "m_" \o key

\* the channel the bridge callables pass to ipcRenderer.invoke / send / on
BridgeChannel(key) == key

\* the channel main.fromRenderer passes to ipcMain.handle / on
MainChannel(key) == key

\* the channel main.toRenderer passes to window.webContents.send
PushChannel(key) == key

(***************************************************************************)
(* preload()                                                                *)
(***************************************************************************)
\* a preload that forwards every toMain entry to ipcRenderer.invoke
ToMainPrimInvoke(action) == "invoke"

\* the primitive the m_ callable of a toMain entry forwards to
ToMainPrim(action) == IF action.type = "twoWay" THEN "invoke" ELSE "send"

\* the callables of the first loop: one m_ entry per toMain key
ExposeToMain(c, props) ==
  { [name |-> ToMainName(props.toMain[i].key),
     prim |-> ToMainPrim(props.toMain[i].action),
     chan |-> BridgeChannel(props.toMain[i].key),
     by |-> c] : i \in 1..Len(props.toMain) }

\* the callables of the second loop: one r_ entry per toRenderer key
ExposeToRender(c, props) ==
  { [name |-> ToRenderName(props.toRender[i].key),
     prim |-> "on",
     chan |-> BridgeChannel(props.toRender[i].key),
     by |-> c] : i \in 1..Len(props.toRender) }

\* the object preload() builds before exposing it
ExposeObject(c, props) == ExposeToMain(c, props) \cup ExposeToRender(c, props)

\* contextBridge.exposeInMainWorld(ipcKey, obj): binds, or throws when bound
ExposeInMainWorld(g, ipcKey, obj) ==
  IF g[ipcKey].bound THEN g
  ELSE [g EXCEPT ![ipcKey] = [bound |-> TRUE, obj |-> obj]]

\* the exposeInMainWorld calls one preload() makes
PreloadExposeCalls(c, props) ==
  << [ipcKey |-> props.ipcKey, obj |-> ExposeObject(c, props)] >>

Preload(c, w) ==
  /\ c \in DOMAIN apis
  /\ w \in wins
  /\ <<c, w>> \notin preloaded
  /\ LET made == PreloadExposeCalls(c, apis[c])
     IN /\ exposeLog' = [exposeLog EXCEPT ![w] = @ \o made]
        /\ global' = [global EXCEPT ![w] =
                        ExposeInMainWorld(@, made[1].ipcKey, made[1].obj)]
        /\ uncaught' = IF global[w][made[1].ipcKey].bound
                       THEN uncaught \cup {[proc |-> w, op |-> "preload", err |-> AlreadyBound]}
                       ELSE uncaught
  /\ preloaded' = preloaded \cup {<<c, w>>}
  /\ UNCHANGED <<apis, wins, senders, partial, mainHandle, mainOn, regs, rendOn, subs, calls, invs>>

(***************************************************************************)
(* main.fromRenderer({ handlers, ipcMain })                                 *)
(***************************************************************************)
\* the listener fromRenderer registers for key: (e, arg) => { handlers[key](arg, e); }
\* with handlers the Handler Map of fromRenderer call r
\* a listener registered on a channel private to its fromRenderer call
WrapperNamespaced(key, r) ==
  [chan |-> ArgOf(r) \o ":" \o MainChannel(key), key |-> key, reg |-> r]

Wrapper(key, r) == [chan |-> MainChannel(key), key |-> key, reg |-> r]

\* a fromRenderer that registers every entry with ipcMain.on
MainRegistryOn(t) == "on"

\* the registry a toMain entry of type t is registered in
MainRegistry(t) == IF t = "twoWay" THEN "handle" ELSE "on"

\* a loop whose handle registration replaces the channel's earlier listener
RECURSIVE FromRendererLoopReplacing(_, _, _, _)
FromRendererLoopReplacing(table, i, r, st) ==
  IF i > Len(table) THEN st
  ELSE LET wr == Wrapper(table[i].key, r)
       IN IF MainRegistry(table[i].action.type) = "handle"
          THEN FromRendererLoopReplacing(table, i + 1, r,
                 [st EXCEPT !.handle = {h \in @ : h.chan # wr.chan} \cup {wr}])
          ELSE FromRendererLoopReplacing(table, i + 1, r,
                 [st EXCEPT !.on = Append(@, wr)])

\* a loop that skips an entry whose channel already has a listener
RECURSIVE FromRendererLoopGuarded(_, _, _, _)
FromRendererLoopGuarded(table, i, r, st) ==
  IF i > Len(table) THEN st
  ELSE LET wr == Wrapper(table[i].key, r)
       IN IF MainRegistry(table[i].action.type) = "handle"
          THEN IF \E h \in st.handle : h.chan = wr.chan
               THEN FromRendererLoopGuarded(table, i + 1, r, st)
               ELSE FromRendererLoopGuarded(table, i + 1, r,
                                            [st EXCEPT !.handle = @ \cup {wr}])
          ELSE IF \E n \in 1..Len(st.on) : st.on[n].chan = wr.chan
               THEN FromRendererLoopGuarded(table, i + 1, r, st)
               ELSE FromRendererLoopGuarded(table, i + 1, r,
                                            [st EXCEPT !.on = Append(@, wr)])

\* the loop over Object.keys(toMain), from entry i on; ipcMain.handle throws on
\* a channel that already has a handler, which ends the loop
RECURSIVE FromRendererLoop(_, _, _, _)
FromRendererLoop(table, i, r, st) ==
  IF i > Len(table) THEN st
  ELSE LET wr == Wrapper(table[i].key, r)
       IN IF MainRegistry(table[i].action.type) = "handle"
          THEN IF \E h \in st.handle : h.chan = wr.chan
               THEN [st EXCEPT !.err = SecondHandler(wr.chan)]
               ELSE FromRendererLoop(table, i + 1, r,
                                     [st EXCEPT !.handle = @ \cup {wr}])
          ELSE FromRendererLoop(table, i + 1, r, [st EXCEPT !.on = Append(@, wr)])

FromRenderer(c, hm) ==
  /\ c \in DOMAIN apis
  /\ Ops < MaxOps
  /\ hm \in HandlerMaps(apis[c].toMain)
  /\ partial \/ hm = Keys(apis[c].toMain)
  /\ LET r == Len(regs) + 1
         st == FromRendererLoop(apis[c].toMain, 1, r,
                                [handle |-> mainHandle, on |-> mainOn, err |-> ""])
     IN /\ mainHandle' = st.handle
        /\ mainOn' = st.on
        /\ regs' = Append(regs, [contract |-> c, handlers |-> hm])
        /\ uncaught' = IF st.err = "" THEN uncaught
                       ELSE uncaught \cup {[proc |-> "main", op |-> "fromRenderer", err |-> st.err]}
  /\ UNCHANGED <<apis, wins, senders, partial, global, exposeLog, preloaded, rendOn, subs, calls, invs>>

(***************************************************************************)
(* renderer.fromMain({ handlers })                                          *)
(***************************************************************************)
\* a renderer surface that looks every contract up under one fixed key
RendererKeyShared(c) == "myIpc"

\* the ipcKey a contract's renderer surface looks up in the global scope
RendererKey(c) == apis[c].ipcKey

\* window[ipcKey][name]: the callable installed under name, if any
Callable(obj, name) ==
  IF \E e \in obj : e.name = name
  THEN CHOOSE e \in obj : e.name = name
  ELSE [name |-> name, prim |-> "missing", chan |-> "", by |-> ""]

\* the loop over Object.keys(toRender) of fromMain call s, from entry i on:
\* each r_ callable registers ipcRenderer.on(key, (_, arg) => cb(arg)) with
\* cb = handlers[key]; a bridge object without the callable throws, which
\* ends the loop
RECURSIVE FromMainListeners(_, _, _, _, _)
FromMainListeners(obj, table, i, s, st) ==
  IF i > Len(table) THEN st
  ELSE LET fn == Callable(obj, ToRenderName(table[i].key))
       IN IF fn.prim # "on"
          THEN [st EXCEPT !.err = NoBridgeCallable]
          ELSE FromMainListeners(obj, table, i + 1, s,
                 [st EXCEPT !.on = Append(@, [chan |-> fn.chan, by |-> fn.by,
                                              key |-> table[i].key, sub |-> s])])

FromMain(c, w, hm) ==
  /\ c \in DOMAIN apis
  /\ w \in wins
  /\ Ops < MaxOps
  /\ hm \in HandlerMaps(apis[c].toRender)
  /\ partial \/ hm = Keys(apis[c].toRender)
  /\ LET s == Len(subs) + 1
         br == global[w][RendererKey(c)]
         table == apis[c].toRender
         st == IF ~br.bound
               THEN [on |-> <<>>, err |-> IF Len(table) > 0 THEN NoBridge ELSE ""]
               ELSE FromMainListeners(br.obj, table, 1, s, [on |-> <<>>, err |-> ""])
     IN /\ rendOn' = [rendOn EXCEPT ![w] = @ \o st.on]
        /\ subs' = Append(subs, [contract |-> c, win |-> w, handlers |-> hm,
                                 threw |-> st.err # ""])
        /\ uncaught' = IF st.err = "" THEN uncaught
                       ELSE uncaught \cup {[proc |-> w, op |-> "fromMain", err |-> st.err]}
  /\ UNCHANGED <<apis, wins, senders, partial, global, exposeLog, preloaded, mainHandle, mainOn, regs,
                 calls, invs>>

(***************************************************************************)
(* renderer.toMain() and its callables                                      *)
(***************************************************************************)
\* a call record: who issued what, through which primitive, and how far it got
\*   name    the property of the api object that was called
\*   at      the fromMain calls that had been made when the call was issued
\*   ret     what the caller got back: "undefined", "promise" or "threw"
\*   stage   "inflight", then "delivered" (send, webSend), or "handled" and
\*           "responded" (invoke); "failed" when nothing was sent
\*   wret    what main's handle listener returned or threw (invoke only)
\*   seen    the registrations made when the message was delivered: calls of
\*           fromRenderer for a renderer call, of fromMain for a push
\*   settled the state of the caller's promise; value what it settled with
Call(c, w, key, arg, fn, ret, stage, settled, value) ==
  [via |-> c, win |-> w, key |-> key, arg |-> arg,
   name |-> fn.name, prim |-> fn.prim, chan |-> fn.chan, by |-> fn.by,
   at |-> Len(subs),
   ret |-> ret, stage |-> stage, wret |-> [t |-> "none", v |-> ""], seen |-> 0,
   settled |-> settled, value |-> value]

NoCallable == [name |-> "", prim |-> "none", chan |-> "", by |-> ""]

\* a caller that guards the lookup (window[ipcKey]?.[name]?.(arg)) and so
\* returns undefined where the bridge is absent
ToMainInvokeSilent(br, c, w, key, arg) ==
  IF ~br.bound
  THEN Call(c, w, key, arg, NoCallable, "undefined", "failed", "none", Undefined)
  ELSE LET fn == Callable(br.obj, ToMainName(key))
       IN IF fn.prim = "invoke"
          THEN Call(c, w, key, arg, fn, "promise", "inflight", "pending", "")
          ELSE Call(c, w, key, arg, fn, "undefined", "inflight", "none", Undefined)

\* api[key](arg) of renderer.toMain(): window[ipcKey][`m_${key}`](arg)
ToMainInvoke(br, c, w, key, arg) ==
  IF ~br.bound
  THEN Call(c, w, key, arg, NoCallable, "threw", "failed", "none", NoBridge)
  ELSE LET fn == Callable(br.obj, ToMainName(key))
       IN CASE fn.prim = "invoke" ->
                 Call(c, w, key, arg, fn, "promise", "inflight", "pending", "")
            [] fn.prim = "send" ->
                 Call(c, w, key, arg, fn, "undefined", "inflight", "none", Undefined)
            [] OTHER ->
                 Call(c, w, key, arg, NoCallable, "threw", "failed", "none", NoBridgeCallable)

ToMainCall(c, w, key, arg) ==
  /\ c \in DOMAIN apis
  /\ w \in wins
  /\ Ops < MaxOps
  /\ key \in Keys(apis[c].toMain)
  /\ arg = ArgOf(Len(calls) + 1)
  /\ calls' = Append(calls, ToMainInvoke(global[w][RendererKey(c)], c, w, key, arg))
  /\ UNCHANGED <<apis, wins, senders, partial, global, exposeLog, preloaded, mainHandle, mainOn, regs,
                 rendOn, subs, invs, uncaught>>

(***************************************************************************)
(* main.toRenderer({ window }) and its callables                            *)
(***************************************************************************)
\* a sender that uses the renderer's fire-and-forget primitive
ToRendererInvokeSend(c, w, key, arg) ==
  Call(c, w, key, arg,
       [name |-> key, prim |-> "send", chan |-> PushChannel(key), by |-> c],
       "undefined", "inflight", "none", Undefined)

\* a toRenderer() that sends every action once while it builds the api
ToRendererBuildEager(c, w) ==
  [i \in 1..Len(apis[c].toRender) |->
     Call(c, w, apis[c].toRender[i].key, ArgOf(Len(calls) + i),
          [name |-> apis[c].toRender[i].key, prim |-> "webSend",
           chan |-> PushChannel(apis[c].toRender[i].key), by |-> c],
          "undefined", "inflight", "none", Undefined)]

\* the messages toRenderer() sends while it builds the api object: the loop
\* only stores one closure per key
ToRendererBuild(c, w) == <<>>

\* main.toRenderer({ window }): the api object for one window
ToRenderer(c, w) ==
  /\ c \in DOMAIN apis
  /\ w \in wins
  /\ <<c, w>> \notin senders
  /\ senders' = senders \cup {<<c, w>>}
  /\ calls' = calls \o ToRendererBuild(c, w)
  /\ UNCHANGED <<apis, wins, partial, global, exposeLog, preloaded, mainHandle, mainOn, regs,
                 rendOn, subs, invs, uncaught>>

\* api[key](arg): window.webContents.send(key, arg)
ToRendererInvoke(c, w, key, arg) ==
  Call(c, w, key, arg,
       [name |-> key, prim |-> "webSend", chan |-> PushChannel(key), by |-> c],
       "undefined", "inflight", "none", Undefined)

ToRendererSend(c, w, key, arg) ==
  /\ c \in DOMAIN apis
  /\ w \in wins
  /\ <<c, w>> \in senders
  /\ Ops < MaxOps
  /\ key \in Keys(apis[c].toRender)
  /\ arg = ArgOf(Len(calls) + 1)
  /\ calls' = Append(calls, ToRendererInvoke(c, w, key, arg))
  /\ UNCHANGED <<apis, wins, senders, partial, global, exposeLog, preloaded, mainHandle, mainOn, regs,
                 rendOn, subs, invs, uncaught>>

(***************************************************************************)
(* Application handlers.                                                    *)
(***************************************************************************)
\* listeners that pass the transport's arguments on in the transport's order
MainHandlerArgsSwapped(arg) == <<EventMeta, arg>>

\* the arguments fromRenderer's listeners pass on: handlers[key](arg, e)
MainHandlerArgs(arg) == <<arg, EventMeta>>

\* the arguments the r_ listeners pass on: cb(arg)
\* a bridge that hands the callback to ipcRenderer.on as it is
RendererHandlerArgsRaw(arg) == <<EventMeta, arg>>

RendererHandlerArgs(arg) == <<arg>>

\* one run of an application handler, the n-th of the delivery of call i:
\* "return" and "throw" complete at once, "async" returns a promise that is
\* still pending
Invocation(side, i, n, l, key, args, type, beh) ==
  [side |-> side, call |-> i, n |-> n, listener |-> l, key |-> key, args |-> args,
   outcome |-> CASE beh = "return" -> "returned"
                 [] beh = "throw" -> "threw"
                 [] OTHER -> "pending",
   value |-> CASE beh = "return" ->
                    IF type = "twoWay" THEN HandlerResult(args[1]) ELSE Undefined
               [] beh = "throw" -> HandlerError(args[1])
               [] OTHER -> ""]

(***************************************************************************)
(* The transport, renderer to main: ipcRenderer.send -> ipcMain.on          *)
(***************************************************************************)
\* ipcMain emits to the on listeners of the channel in order; a listener that
\* throws ends the emit
\* a listener that guards the call (handlers[key]?.(arg, e))
MissingHandlerSilent == [t |-> "value", v |-> Undefined]

\* handlers[key](arg, e) when the Handler Map has no entry for key
MissingHandler == [t |-> "throw", v |-> NotAFunction]

RECURSIVE EmitMain(_, _, _, _, _)
EmitMain(ls, j, i, behs, acc) ==
  IF j > Len(ls) THEN acc
  ELSE IF ls[j].key \notin regs[ls[j].reg].handlers
       THEN IF MissingHandler.t = "throw"
            THEN [acc EXCEPT !.err = MissingHandler.v]
            ELSE EmitMain(ls, j + 1, i, behs, acc)
       ELSE LET inv == Invocation("main", i, j, ls[j].reg, ls[j].key,
                                  MainHandlerArgs(calls[i].arg), "oneWay", behs[j])
            IN IF inv.outcome = "threw"
               THEN [invs |-> acc.invs \cup {inv}, err |-> inv.value]
               ELSE EmitMain(ls, j + 1, i, behs, [acc EXCEPT !.invs = @ \cup {inv}])

OnListeners(chan) == SelectSeq(mainOn, LAMBDA l : l.chan = chan)

DeliverSend(i) ==
  /\ i \in 1..Len(calls)
  /\ calls[i].prim = "send"
  /\ calls[i].stage = "inflight"
  /\ LET ls == OnListeners(calls[i].chan)
     IN \E behs \in [1..Len(ls) -> {"return", "throw"}] :
          LET out == EmitMain(ls, 1, i, behs, [invs |-> {}, err |-> ""])
          IN /\ invs' = invs \cup out.invs
             /\ uncaught' = IF out.err = "" THEN uncaught
                            ELSE uncaught \cup {[proc |-> "main", op |-> "on", err |-> out.err]}
  /\ calls' = [calls EXCEPT ![i].stage = "delivered", ![i].seen = Len(regs)]
  /\ UNCHANGED <<apis, wins, senders, partial, global, exposeLog, preloaded, mainHandle, mainOn, regs,
                 rendOn, subs>>

(***************************************************************************)
(* The transport, renderer to main: ipcRenderer.invoke -> ipcMain.handle    *)
(***************************************************************************)
\* what the listener (e, arg) => { handlers[key](arg, e); } gives the
\* transport after the handler ran: the handler's throw propagates, and the
\* body has no return statement
TwoWayWrapperReturn(inv) ==
  IF inv.outcome = "threw"
  THEN [t |-> "throw", v |-> inv.value]
  ELSE [t |-> "value", v |-> Undefined]

\* the rejection ipcRenderer.invoke makes of an error raised in main
RemoteError(chan, e) == "Error invoking remote method '" \o chan \o "': " \o e

DeliverInvoke(i, beh) ==
  /\ i \in 1..Len(calls)
  /\ calls[i].prim = "invoke"
  /\ calls[i].stage = "inflight"
  /\ beh \in {"return", "throw", "async"}
  /\ LET hs == {h \in mainHandle : h.chan = calls[i].chan}
     IN IF hs = {}
        THEN /\ beh = "return"
             /\ calls' = [calls EXCEPT ![i].stage = "handled", ![i].seen = Len(regs),
                            ![i].wret = [t |-> "throw", v |-> NoHandler(calls[i].chan)]]
             /\ UNCHANGED invs
        ELSE LET h == CHOOSE x \in hs : TRUE
             IN IF h.key \notin regs[h.reg].handlers
                THEN /\ beh = "return"
                     /\ calls' = [calls EXCEPT ![i].stage = "handled", ![i].seen = Len(regs),
                                    ![i].wret = MissingHandler]
                     /\ UNCHANGED invs
                ELSE LET inv == Invocation("main", i, 1, h.reg, h.key,
                                           MainHandlerArgs(calls[i].arg), "twoWay", beh)
                     IN /\ invs' = invs \cup {inv}
                        /\ calls' = [calls EXCEPT ![i].stage = "handled", ![i].seen = Len(regs),
                                       ![i].wret = TwoWayWrapperReturn(inv)]
  /\ UNCHANGED <<apis, wins, senders, partial, global, exposeLog, preloaded, mainHandle, mainOn, regs,
                 rendOn, subs, uncaught>>

\* the invocation of the two-way handler that served call i, if any
InvOf(i) == {v \in invs : v.call = i /\ v.side = "main"}

\* a pending promise returned by an application handler settles
SettleHandler(i, how) ==
  /\ i \in 1..Len(calls)
  /\ how \in {"resolved", "rejected"}
  /\ \E v \in InvOf(i) :
       /\ v.outcome = "pending"
       /\ invs' = (invs \ {v}) \cup
                    {[v EXCEPT !.outcome = how,
                               !.value = IF how = "resolved" THEN HandlerResult(v.args[1])
                                         ELSE HandlerError(v.args[1])]}
       /\ uncaught' = IF how = "rejected" /\ calls[i].wret.t # "promise"
                      THEN uncaught \cup {[proc |-> "main", op |-> "unhandledRejection",
                                           err |-> HandlerError(v.args[1])]}
                      ELSE uncaught
  /\ UNCHANGED <<apis, wins, senders, partial, global, exposeLog, preloaded, mainHandle, mainOn, regs,
                 rendOn, subs, calls>>

\* ipcMain.handle answers with the value its listener returned, awaited when
\* that is a promise, or with the error it threw; the answer settles the
\* promise ipcRenderer.invoke returned
Respond(i) ==
  /\ i \in 1..Len(calls)
  /\ calls[i].prim = "invoke"
  /\ calls[i].stage = "handled"
  /\ LET wr == calls[i].wret
     IN CASE wr.t = "value" ->
               calls' = [calls EXCEPT ![i].stage = "responded",
                           ![i].settled = "resolved", ![i].value = wr.v]
          [] wr.t = "throw" ->
               calls' = [calls EXCEPT ![i].stage = "responded",
                           ![i].settled = "rejected",
                           ![i].value = RemoteError(calls[i].chan, wr.v)]
          [] OTHER ->
               \E v \in InvOf(i) :
                 /\ v.outcome \in {"resolved", "rejected"}
                 /\ calls' = [calls EXCEPT ![i].stage = "responded",
                                ![i].settled = v.outcome,
                                ![i].value = IF v.outcome = "resolved"
                                             THEN v.value
                                             ELSE RemoteError(calls[i].chan, v.value)]
  /\ UNCHANGED <<apis, wins, senders, partial, global, exposeLog, preloaded, mainHandle, mainOn, regs,
                 rendOn, subs, invs, uncaught>>

(***************************************************************************)
(* The transport, main to renderer: webContents.send -> ipcRenderer.on      *)
(***************************************************************************)
\* a registry in which a new listener replaces the one already on the channel
RendererListenersLast(w, chan) ==
  LET ls == SelectSeq(rendOn[w], LAMBDA l : l.chan = chan)
  IN IF Len(ls) = 0 THEN ls ELSE <<ls[Len(ls)]>>

\* ipcRenderer's listeners on a channel, in registration order
RendererListeners(w, chan) == SelectSeq(rendOn[w], LAMBDA l : l.chan = chan)

\* a sender that always pushes to the first window
PushTargetFirst(call) == "w1"

\* the window a push goes to
PushTarget(call) == call.win

\* a delivery that keeps a message no handler took and hands it to the
\* handlers registered later
DeliverPushBuffered(i) ==
  /\ i \in 1..Len(calls)
  /\ calls[i].prim = "webSend"
  /\ calls[i].stage \in {"inflight", "delivered"}
  /\ {v \in invs : v.call = i} = {}
  /\ LET ls == RendererListeners(PushTarget(calls[i]), calls[i].chan)
     IN invs' = invs \cup
                  { Invocation(PushTarget(calls[i]), i, j, ls[j].sub, ls[j].key,
                               RendererHandlerArgs(calls[i].arg), "oneWay", "return")
                    : j \in 1..Len(ls) }
  /\ calls' = [calls EXCEPT ![i].stage = "delivered",
                            ![i].seen = IF calls[i].stage = "inflight" THEN Len(subs) ELSE @]
  /\ UNCHANGED <<apis, wins, senders, partial, global, exposeLog, preloaded, mainHandle,
                 mainOn, regs, rendOn, subs, uncaught>>

\* cb(arg) in the r_ listener when the fromMain map has no entry for the key
MissingCallback == "TypeError: cb is not a function"

\* ipcRenderer emits to the on listeners of the channel in order; each is
\* (_, arg) => cb(arg), and one that throws ends the emit
RECURSIVE EmitRenderer(_, _, _, _, _)
EmitRenderer(ls, j, i, behs, acc) ==
  IF j > Len(ls) THEN acc
  ELSE IF ls[j].key \notin subs[ls[j].sub].handlers
       THEN [acc EXCEPT !.err = MissingCallback]
       ELSE LET inv == Invocation(PushTarget(calls[i]), i, j, ls[j].sub, ls[j].key,
                                  RendererHandlerArgs(calls[i].arg), "oneWay", behs[j])
            IN IF inv.outcome = "threw"
               THEN [invs |-> acc.invs \cup {inv}, err |-> inv.value]
               ELSE EmitRenderer(ls, j + 1, i, behs, [acc EXCEPT !.invs = @ \cup {inv}])

DeliverPush(i) ==
  /\ i \in 1..Len(calls)
  /\ calls[i].prim = "webSend"
  /\ calls[i].stage = "inflight"
  /\ LET ls == RendererListeners(PushTarget(calls[i]), calls[i].chan)
     IN \E behs \in [1..Len(ls) -> {"return", "throw"}] :
          LET out == EmitRenderer(ls, 1, i, behs, [invs |-> {}, err |-> ""])
          IN /\ invs' = invs \cup out.invs
             /\ uncaught' = IF out.err = "" THEN uncaught
                            ELSE uncaught \cup {[proc |-> PushTarget(calls[i]), op |-> "on",
                                                 err |-> out.err]}
  /\ calls' = [calls EXCEPT ![i].stage = "delivered", ![i].seen = Len(subs)]
  /\ UNCHANGED <<apis, wins, senders, partial, global, exposeLog, preloaded, mainHandle, mainOn, regs,
                 rendOn, subs>>

(***************************************************************************)
(* The specification.                                                       *)
(***************************************************************************)
Next ==
  \/ \E c \in ContractIds, w \in Windows : Preload(c, w)
  \/ \E c \in ContractIds : \E hm \in SUBSET {"logMessage", "fetchData"} : FromRenderer(c, hm)
  \/ \E c \in ContractIds, w \in Windows :
       \E hm \in SUBSET {"notify", "logMessage"} : FromMain(c, w, hm)
  \/ \E c \in ContractIds, w \in Windows, key \in {"logMessage", "fetchData"}, arg \in Args :
       ToMainCall(c, w, key, arg)
  \/ \E c \in ContractIds, w \in Windows : ToRenderer(c, w)
  \/ \E c \in ContractIds, w \in Windows, key \in {"notify", "logMessage"}, arg \in Args :
       ToRendererSend(c, w, key, arg)
  \/ \E i \in 1..MaxOps : DeliverSend(i)
  \/ \E i \in 1..MaxOps, beh \in {"return", "throw", "async"} : DeliverInvoke(i, beh)
  \/ \E i \in 1..MaxOps, how \in {"resolved", "rejected"} : SettleHandler(i, how)
  \/ \E i \in 1..MaxOps : Respond(i)
  \/ \E i \in 1..MaxOps : DeliverPush(i)

Spec == Init /\ [][Next]_vars


(***************************************************************************)
(* Properties.                                                              *)
(***************************************************************************)
CallIds == 1..Len(calls)

\* the invocations the delivery of call i made
InvsOfCall(i) == {v \in invs : v.call = i}

\* a renderer call that went through the bridge for a toMain key of type t
IsToMain(i, t) ==
  /\ calls[i].prim \in {"invoke", "send"}
  /\ calls[i].key \in Keys(apis[calls[i].via].toMain)
  /\ TypeOf(apis[calls[i].via].toMain, calls[i].key) = t

\* C1: whenever the handler of a two-way call has returned r, or its promise
\* has resolved to r, the caller's promise, once settled, is resolved with r.
C1_CallerResolvesToHandlerResult ==
  \A i \in CallIds : \A v \in InvOf(i) :
    (IsToMain(i, "twoWay") /\ calls[i].stage = "responded"
       /\ v.outcome \in {"returned", "resolved"})
    => (calls[i].settled = "resolved" /\ calls[i].value = v.value)

\* C2: whenever the handler of a two-way call has thrown e, or its promise has
\* rejected with e, the caller's promise, once settled, is rejected with the
\* transport's rendering of e.
C2_CallerRejectsWithHandlerError ==
  \A i \in CallIds : \A v \in InvOf(i) :
    (IsToMain(i, "twoWay") /\ calls[i].stage = "responded"
       /\ v.outcome \in {"threw", "rejected"})
    => (calls[i].settled = "rejected"
          /\ calls[i].value = RemoteError(calls[i].key, v.value))

\* the fromRenderer calls, among those made when call i was delivered, whose
\* contract declares the key of call i
RegistrationsFor(i) ==
  {r \in 1..calls[i].seen : calls[i].key \in Keys(apis[regs[r].contract].toMain)}

\* C3: a one-way renderer call returns undefined and leaves no promise; no
\* handler runs before its delivery; delivered after exactly one fromRenderer
\* registration whose Handler Map has the key, it has run that handler exactly
\* once, with (v, event).
C3_OneWayInvokesHandlerOnce ==
  \A i \in CallIds :
    IsToMain(i, "oneWay") =>
      /\ calls[i].prim = "send"
      /\ calls[i].ret = "undefined"
      /\ calls[i].settled = "none"
      /\ calls[i].stage = "inflight" => InvsOfCall(i) = {}
      /\ (/\ calls[i].stage = "delivered"
          /\ Cardinality(RegistrationsFor(i)) = 1
          /\ \A r \in RegistrationsFor(i) : calls[i].key \in regs[r].handlers)
         => /\ Cardinality(InvsOfCall(i)) = 1
            /\ \A v \in InvsOfCall(i) :
                 /\ v.side = "main"
                 /\ v.listener \in RegistrationsFor(i)
                 /\ v.key = calls[i].key
                 /\ v.args[1] = calls[i].arg

C3_Witness ==
  \E i \in CallIds :
    /\ IsToMain(i, "oneWay")
    /\ calls[i].stage = "delivered"
    /\ Cardinality(RegistrationsFor(i)) = 1
    /\ \E v \in InvsOfCall(i) : v.args[1] = calls[i].arg /\ calls[i].arg = ArgOf(2)

\* the fromMain calls, among those made when push i was delivered, that
\* registered a handler for its key in the renderer of window w
SubscriptionsFor(i, w) ==
  {s \in 1..calls[i].seen :
     /\ subs[s].win = w
     /\ ~subs[s].threw
     /\ calls[i].key \in Keys(apis[subs[s].contract].toRender)}

\* the renderer-side listeners that were registered on the channel of push i,
\* in its window, when it was delivered
PushHeardBy(i) ==
  SelectSeq(rendOn[calls[i].win],
            LAMBDA l : l.chan = calls[i].chan /\ l.sub <= calls[i].seen)

\* the listener at place j of the delivery of push i has a handler that was
\* called and returned normally
PushReturned(i, j) ==
  /\ PushHeardBy(i)[j].key \in subs[PushHeardBy(i)[j].sub].handlers
  /\ \E v \in InvsOfCall(i) : v.n = j /\ v.outcome = "returned"

\* C4 as claimed: a delivered push to window W has run every handler
\* registered for its key in W's renderer exactly once, with exactly (v), and
\* has run no handler of another window.
C4_PushRunsEveryHandler ==
  \A i \in CallIds :
    (calls[i].prim = "webSend" /\ calls[i].stage = "delivered") =>
      /\ \A s \in SubscriptionsFor(i, calls[i].win) :
           /\ Cardinality({v \in InvsOfCall(i) : v.listener = s}) = 1
           /\ \A v \in InvsOfCall(i) :
                v.listener = s => (v.args = <<calls[i].arg>> /\ v.side = calls[i].win)
      /\ \A v \in InvsOfCall(i) :
           /\ v.side = calls[i].win
           /\ v.listener \in SubscriptionsFor(i, calls[i].win)

\* C4 as amended: a delivered push to window W has run the handlers
\* registered for its key in W's renderer in registration order, each at most
\* once and with exactly (v): every one of them as long as the ones before it
\* are present and returned normally, none after one that threw or is
\* missing; it has run no handler of another window.
C4_PushReachesOnlyItsWindow ==
  \A i \in CallIds :
    (calls[i].prim = "webSend" /\ calls[i].stage = "delivered") =>
      /\ \A j \in 1..Len(PushHeardBy(i)) :
           /\ Cardinality({v \in InvsOfCall(i) : v.n = j}) <= 1
           /\ ((\A m \in 1..(j - 1) : PushReturned(i, m))
                 /\ PushHeardBy(i)[j].key \in subs[PushHeardBy(i)[j].sub].handlers)
                => \E v \in InvsOfCall(i) : v.n = j
           /\ (\E m \in 1..(j - 1) : ~PushReturned(i, m))
                => \A v \in InvsOfCall(i) : v.n # j
      /\ \A v \in InvsOfCall(i) :
           /\ v.side = calls[i].win
           /\ v.args = <<calls[i].arg>>
           /\ v.n \in 1..Len(PushHeardBy(i))
           /\ v.listener = PushHeardBy(i)[v.n].sub
           /\ subs[v.listener].win = calls[i].win

C4_Witness ==
  \E i \in CallIds : \E w \in wins :
    /\ calls[i].prim = "webSend"
    /\ calls[i].stage = "delivered"
    /\ w # calls[i].win
    /\ SubscriptionsFor(i, w) # {}
    /\ SubscriptionsFor(i, calls[i].win) # {}
    /\ InvsOfCall(i) # {}

\* the same push with two handlers in its window, the first of which threw
C4_WitnessThrew ==
  \E i \in CallIds :
    /\ calls[i].prim = "webSend"
    /\ calls[i].stage = "delivered"
    /\ Len(PushHeardBy(i)) = 2
    /\ \E v \in InvsOfCall(i) : v.n = 1 /\ v.outcome = "threw"
    /\ [proc |-> calls[i].win, op |-> "on", err |-> HandlerError(calls[i].arg)] \in uncaught

\* C5: of two two-way calls of one renderer to one action that were
\* outstanding together, the one answered first is settled with the outcome of
\* the handler invocation made for it.
C5_ConcurrentCallsSettleWithOwnOutcome ==
  \A i \in CallIds : \A j \in CallIds :
    (/\ i # j
     /\ IsToMain(i, "twoWay") /\ IsToMain(j, "twoWay")
     /\ calls[i].via = calls[j].via /\ calls[i].key = calls[j].key
     /\ calls[i].win = calls[j].win
     /\ calls[i].stage \in {"inflight", "handled"}
     /\ calls[j].stage = "responded")
    => \A v \in InvOf(j) :
         \/ /\ v.outcome \in {"returned", "resolved"}
            /\ calls[j].settled = "resolved"
            /\ calls[j].value = v.value
         \/ /\ v.outcome \in {"threw", "rejected"}
            /\ calls[j].settled = "rejected"
            /\ calls[j].value = RemoteError(calls[j].key, v.value)

\* C6: the caller's promise of a two-way call is never settled while the
\* handler's own promise for that call is still pending.
C6_CallerWaitsForHandler ==
  \A i \in CallIds : \A v \in InvOf(i) :
    (IsToMain(i, "twoWay") /\ calls[i].settled # "pending") => v.outcome # "pending"


\* the contracts preload() has run for in the renderer of window w
PreloadedIn(w) == {c \in DOMAIN apis : <<c, w>> \in preloaded}

\* the keys preload() of contract c puts on the object it exposes
ExposedNames(c) ==
  {"m_" \o k : k \in Keys(apis[c].toMain)} \cup {"r_" \o k : k \in Keys(apis[c].toRender)}

\* no other contract preloaded in window w exposes under the ipcKey of c (where
\* one does, the later exposeInMainWorld call throws and the earlier object
\* stays)
SoleIn(c, w) == \A d \in PreloadedIn(w) : apis[d].ipcKey = apis[c].ipcKey => d = c

\* C7: where preload() has run, the object under ipcKey has exactly the keys
\* m_<k> for the toMain keys and r_<k> for the toRenderer keys; each preload()
\* made exactly one exposeInMainWorld call, of that object under that key; and
\* every invoke, send and on made through the object is on channel k.
C7_ExposedKeysAndChannels ==
  /\ \A w \in Windows : \A c \in PreloadedIn(w) :
       /\ global[w][apis[c].ipcKey].bound
       /\ \E n \in 1..Len(exposeLog[w]) :
            /\ exposeLog[w][n].ipcKey = apis[c].ipcKey
            /\ \A e \in exposeLog[w][n].obj : e.by = c
            /\ {e.name : e \in exposeLog[w][n].obj} = ExposedNames(c)
            /\ SoleIn(c, w) => global[w][apis[c].ipcKey].obj = exposeLog[w][n].obj
       /\ SoleIn(c, w) =>
            {e.name : e \in global[w][apis[c].ipcKey].obj} = ExposedNames(c)
  /\ \A w \in Windows :
       /\ Len(exposeLog[w]) = Cardinality(PreloadedIn(w))
       /\ \A k \in IpcKeys :
            global[w][k].bound => \E c \in PreloadedIn(w) : apis[c].ipcKey = k
       /\ \A n \in 1..Len(rendOn[w]) : rendOn[w][n].chan = rendOn[w][n].key
  /\ \A i \in CallIds :
       calls[i].prim \in {"invoke", "send"} => calls[i].chan = calls[i].key

C7_Witness ==
  \E w \in wins : \E c \in PreloadedIn(w) : \E i \in CallIds :
    /\ Len(apis[c].toMain) = 2
    /\ calls[i].prim = "invoke"
    /\ calls[i].win = w
    /\ Len(rendOn[w]) > 0

\* the ipcKey of contract c differs from that of every other contract
OwnKey(c) == \A d \in DOMAIN apis : apis[d].ipcKey = apis[c].ipcKey => d = c

\* C8: for contracts with distinct ipcKeys, every callable of the object under
\* a contract's ipcKey was installed by that contract's preload(); every
\* renderer call goes through a callable of the caller's own contract; every
\* listener fromMain registers goes through an r_ callable of its own contract.
C8_BridgeObjectsIsolated ==
  /\ \A w \in Windows : \A c \in DOMAIN apis :
       OwnKey(c) => \A e \in global[w][apis[c].ipcKey].obj : e.by = c
  /\ \A i \in CallIds :
       (calls[i].prim \in {"invoke", "send"} /\ OwnKey(calls[i].via))
         => calls[i].by = calls[i].via
  /\ \A w \in Windows : \A n \in 1..Len(rendOn[w]) :
       OwnKey(subs[rendOn[w][n].sub].contract)
         => rendOn[w][n].by = subs[rendOn[w][n].sub].contract

C8_Witness ==
  \E w \in wins : \E c \in PreloadedIn(w) : \E d \in PreloadedIn(w) :
    /\ c # d
    /\ apis[c].ipcKey # apis[d].ipcKey
    /\ Keys(apis[c].toMain) \cap Keys(apis[d].toMain) # {}
    /\ \E i \in CallIds : \E j \in CallIds :
         /\ calls[i].via = c /\ calls[j].via = d
         /\ calls[i].key = calls[j].key
         /\ calls[i].prim = "send" /\ calls[j].prim = "send"
    /\ Len(rendOn[w]) > 0

\* a step that issues a renderer call or a fromMain call where the bridge
\* object is absent: the call throws the lookup error, sends nothing and
\* registers nothing; a failed call never progresses
MissingBridgeStep ==
  /\ Len(calls') = Len(calls) + 1 =>
       LET n == calls'[Len(calls')]
       IN (n.prim # "webSend" /\ ~global[n.win][apis[n.via].ipcKey].bound) =>
            /\ n.ret = "threw" /\ n.value = NoBridge
            /\ n.prim = "none" /\ n.stage = "failed"
            /\ rendOn' = rendOn /\ invs' = invs
  /\ Len(subs') = Len(subs) + 1 =>
       LET n == subs'[Len(subs')]
       IN (Len(apis[n.contract].toRender) > 0
             /\ ~global[n.win][apis[n.contract].ipcKey].bound) =>
            /\ n.threw
            /\ [proc |-> n.win, op |-> "fromMain", err |-> NoBridge] \in uncaught'
            /\ rendOn' = rendOn /\ calls' = calls /\ invs' = invs
  /\ \A i \in CallIds :
       calls[i].stage = "failed" => (calls'[i] = calls[i] /\ InvsOfCall(i)' = {})

\* C9: a toMain callable invoked, or fromMain called with a non-empty table,
\* where preload() has not installed the namespace object fails with a lookup
\* error, sends no message and registers no listener.
C9_MissingBridgeFails == [][MissingBridgeStep]_vars

C9_Witness ==
  /\ \E i \in CallIds : calls[i].ret = "threw" /\ calls[i].value = NoBridge
  /\ \E s \in 1..Len(subs) : subs[s].threw

\* the keys a fromRenderer call's contract declares and its Handler Map lacks
MissingKeys(r) == Keys(apis[regs[r].contract].toMain) \ regs[r].handlers

\* the on listeners that were registered on the channel of call i when it was
\* delivered
HeardBy(i) ==
  SelectSeq(mainOn, LAMBDA l : l.chan = calls[i].chan /\ l.reg <= calls[i].seen)

\* C10 as claimed: for a key the Handler Map lacks nothing is registered, a
\* two-way call for it never settles, and no error is raised.
C10_MissingHandlerNeverRegistered ==
  /\ \A r \in 1..Len(regs) : \A k \in MissingKeys(r) :
       /\ ~\E h \in mainHandle : h.reg = r /\ h.key = k
       /\ ~\E n \in 1..Len(mainOn) : mainOn[n].reg = r /\ mainOn[n].key = k
  /\ \A i \in CallIds :
       (IsToMain(i, "twoWay")
          /\ \E r \in RegistrationsFor(i) : calls[i].key \in MissingKeys(r))
       => calls[i].settled = "pending"
  /\ \A u \in uncaught : u.err # NotAFunction

\* C10 as amended: the first fromRenderer call registers a listener for every
\* declared key, with or without a handler; a two-way call served by a
\* listener without handler runs no handler and is rejected with the
\* TypeError; a one-way call whose first listener has no handler runs no
\* handler, raises the TypeError in main, and the caller has undefined.
C10_MissingHandlerThrowsOnDispatch ==
  /\ Len(regs) >= 1 =>
       \A k \in Keys(apis[regs[1].contract].toMain) :
         \/ \E h \in mainHandle : h.reg = 1 /\ h.key = k
         \/ \E n \in 1..Len(mainOn) : mainOn[n].reg = 1 /\ mainOn[n].key = k
  /\ \A i \in CallIds : \A h \in mainHandle :
       (/\ IsToMain(i, "twoWay")
        /\ calls[i].stage \in {"handled", "responded"}
        /\ h.chan = calls[i].chan /\ h.reg <= calls[i].seen
        /\ h.key \in MissingKeys(h.reg))
       => /\ InvsOfCall(i) = {}
          /\ calls[i].wret = [t |-> "throw", v |-> NotAFunction]
          /\ calls[i].stage = "responded" =>
               /\ calls[i].settled = "rejected"
               /\ calls[i].value = RemoteError(calls[i].key, NotAFunction)
  /\ \A i \in CallIds :
       (/\ IsToMain(i, "oneWay")
        /\ calls[i].stage = "delivered"
        /\ Len(HeardBy(i)) > 0
        /\ HeardBy(i)[1].key \in MissingKeys(HeardBy(i)[1].reg))
       => /\ InvsOfCall(i) = {}
          /\ [proc |-> "main", op |-> "on", err |-> NotAFunction] \in uncaught
          /\ calls[i].ret = "undefined"

C10_Witness ==
  /\ \E i \in CallIds : \E h \in mainHandle :
       /\ IsToMain(i, "twoWay")
       /\ calls[i].stage = "responded"
       /\ h.chan = calls[i].chan /\ h.reg <= calls[i].seen
       /\ h.key \in MissingKeys(h.reg)
  /\ \E i \in CallIds :
       /\ IsToMain(i, "oneWay")
       /\ calls[i].stage = "delivered"
       /\ Len(HeardBy(i)) > 0


\* the fromRenderer calls made for contract c
RegsOf(c) == {r \in 1..Len(regs) : regs[r].contract = c}

\* C11: a two-way key is sent with invoke and registered with handle, a
\* one-way key is sent with send and registered with on; so once the caller's
\* contract has called fromRenderer, the primitive of every renderer call has
\* a listener of the matching registry on its channel.
C11_PrimitivesAgree ==
  /\ \A i \in CallIds :
       calls[i].prim \in {"invoke", "send"} =>
         (calls[i].prim = "invoke"
            <=> TypeOf(apis[calls[i].via].toMain, calls[i].key) = "twoWay")
  /\ \A h \in mainHandle :
       TypeOf(apis[regs[h.reg].contract].toMain, h.key) = "twoWay"
  /\ \A n \in 1..Len(mainOn) :
       TypeOf(apis[regs[mainOn[n].reg].contract].toMain, mainOn[n].key) = "oneWay"
  /\ \A i \in CallIds :
       (calls[i].prim \in {"invoke", "send"} /\ RegsOf(calls[i].via) # {}) =>
         IF calls[i].prim = "invoke"
         THEN \E h \in mainHandle : h.chan = calls[i].chan
         ELSE \E n \in 1..Len(mainOn) : mainOn[n].chan = calls[i].chan

C11_Witness ==
  \E i \in CallIds : \E j \in CallIds :
    /\ calls[i].prim = "invoke" /\ calls[j].prim = "send"
    /\ calls[i].via = calls[j].via
    /\ RegsOf(calls[i].via) # {}


\* the fromMain calls heard by push i whose map has a handler for its key
SubscriptionsWithHandler(i) ==
  {s \in SubscriptionsFor(i, calls[i].win) : calls[i].key \in subs[s].handlers}

\* C12 as claimed: a push delivered after k fromMain calls with a handler for
\* its key has run a handler k times, once per registration, each time with
\* exactly the payload.
C12_FromMainRunsAll ==
  \A i \in CallIds :
    (calls[i].prim = "webSend" /\ calls[i].stage = "delivered") =>
      /\ Cardinality(InvsOfCall(i)) = Cardinality(SubscriptionsWithHandler(i))
      /\ \A v \in InvsOfCall(i) : v.args = <<calls[i].arg>>
      /\ \A s \in SubscriptionsWithHandler(i) :
           \E v \in InvsOfCall(i) : v.listener = s

\* the listeners fromMain call s has registered, in registration order
ListenerSeqOf(s) == SelectSeq(rendOn[subs[s].win], LAMBDA l : l.sub = s)

\* the map of the fromMain call behind the listener at place j of the delivery
\* of push i has a handler for its key
PushPresent(i, j) == PushHeardBy(i)[j].key \in subs[PushHeardBy(i)[j].sub].handlers

\* C12 as amended: fromMain never unregisters and never skips a duplicate. A
\* call that did not throw has added one listener for every toRenderer key,
\* with or without a handler in its map; a call that threw has added listeners
\* for the keys before the one it threw at only; every listener went through
\* the r_ callable of the bridge object. A delivered push that found k
\* listeners for its key has run their handlers in registration order, each at
\* most once and with exactly the payload: the handler at place j exactly when
\* it is present and the handlers at the places before it are all present and
\* returned normally. So it has run k handlers exactly when the first k - 1
\* are present and returned normally and the k-th is present, and fewer
\* otherwise.
C12_FromMainAccumulates ==
  /\ \A s \in 1..Len(subs) :
       LET table == apis[subs[s].contract].toRender
           ls == ListenerSeqOf(s)
           br == global[subs[s].win][RendererKey(subs[s].contract)]
       IN /\ ~subs[s].threw => Len(ls) = Len(table)
          /\ subs[s].threw =>
               /\ Len(ls) < Len(table)
               /\ \E u \in uncaught : /\ u.proc = subs[s].win
                                      /\ u.op = "fromMain"
                                      /\ u.err \in {NoBridge, NoBridgeCallable}
          /\ \A m \in 1..Len(ls) :
               /\ ls[m].key = table[m].key
               /\ br.bound
               /\ Callable(br.obj, ToRenderName(ls[m].key)).prim = "on"
               /\ Callable(br.obj, ToRenderName(ls[m].key)).chan = ls[m].chan
  /\ \A i \in CallIds :
       (calls[i].prim = "webSend" /\ calls[i].stage = "delivered") =>
         LET k == Len(PushHeardBy(i))
         IN /\ \A s \in SubscriptionsFor(i, calls[i].win) :
                 Cardinality({j \in 1..k : PushHeardBy(i)[j].sub = s}) = 1
            /\ \A j \in 1..k : \A m \in 1..k :
                 j < m => PushHeardBy(i)[j].sub < PushHeardBy(i)[m].sub
            /\ \A j \in 1..k :
                 /\ Cardinality({v \in InvsOfCall(i) : v.n = j}) <= 1
                 /\ (\E v \in InvsOfCall(i) : v.n = j)
                      <=> (PushPresent(i, j) /\ \A m \in 1..(j - 1) : PushReturned(i, m))
            /\ \A v \in InvsOfCall(i) :
                 /\ v.n \in 1..k
                 /\ v.args = <<calls[i].arg>>
                 /\ v.listener = PushHeardBy(i)[v.n].sub
            /\ Cardinality(InvsOfCall(i)) <= k
            /\ (Cardinality(InvsOfCall(i)) = k)
                 <=> (/\ \A m \in 1..(k - 1) : PushReturned(i, m)
                      /\ k > 0 => PushPresent(i, k))

C12_Witness ==
  \E i \in CallIds :
    /\ calls[i].prim = "webSend"
    /\ calls[i].stage = "delivered"
    /\ Cardinality(SubscriptionsFor(i, calls[i].win)) = 2
    /\ Cardinality(InvsOfCall(i)) = 2

\* the same push when the first of the two handlers threw
C12_WitnessThrew ==
  \E i \in CallIds :
    /\ calls[i].prim = "webSend"
    /\ calls[i].stage = "delivered"
    /\ Cardinality(SubscriptionsWithHandler(i)) = 2
    /\ Cardinality(InvsOfCall(i)) = 1


\* the keys of a table that come before its first two-way entry
OneWayPrefix(table) ==
  {table[i].key : i \in {n \in 1..Len(table) :
                           \A m \in 1..n : table[m].action.type = "oneWay"}}

\* the two-way keys of a table
TwoWayKeys(table) ==
  {table[i].key : i \in {n \in 1..Len(table) : table[n].action.type = "twoWay"}}

\* fromRenderer call r has a listener for key k in one of ipcMain's registries
Registered(r, k) ==
  \/ \E h \in mainHandle : h.reg = r /\ h.key = k
  \/ \E n \in 1..Len(mainOn) : mainOn[n].reg = r /\ mainOn[n].key = k

\* C13 as claimed: of two fromRenderer calls for one table both succeed, both
\* hold a listener for every key, and a later call for a key runs the
\* handlers of both.
C13_DoubleRegistrationCoexists ==
  \A r1 \in 1..Len(regs) : \A r2 \in 1..Len(regs) :
    (r1 < r2 /\ regs[r1].contract = regs[r2].contract) =>
      /\ \A u \in uncaught : u.op # "fromRenderer"
      /\ \A k \in Keys(apis[regs[r1].contract].toMain) :
           Registered(r1, k) /\ Registered(r2, k)
      /\ \A i \in CallIds :
           (/\ calls[i].prim \in {"invoke", "send"}
            /\ calls[i].via = regs[r1].contract
            /\ calls[i].stage \in {"delivered", "handled", "responded"}
            /\ calls[i].seen >= r2
            /\ calls[i].key \in regs[r1].handlers \cap regs[r2].handlers)
           => /\ \E v \in InvsOfCall(i) : v.listener = r1
              /\ \E v \in InvsOfCall(i) : v.listener = r2

\* C13 as amended: every fromRenderer call registers a further on listener
\* for the one-way keys before the first two-way entry, and a delivered
\* one-way call has run the handlers of all its listeners in registration
\* order, each once, as far as the earlier ones returned normally; a second
\* call for a table with a two-way key throws the transport's second-handler
\* error, every channel keeps a single handle listener, and a two-way call
\* runs one handler.
C13_DoubleRegistration ==
  /\ \A c \in DOMAIN apis : \A k \in OneWayPrefix(apis[c].toMain) :
       Cardinality({n \in 1..Len(mainOn) :
                      mainOn[n].key = k /\ regs[mainOn[n].reg].contract = c})
         = Cardinality(RegsOf(c))
  /\ \A i \in CallIds :
       (calls[i].prim = "send" /\ calls[i].stage = "delivered") =>
         \A j \in 1..Len(HeardBy(i)) :
           (/\ HeardBy(i)[j].key \in regs[HeardBy(i)[j].reg].handlers
            /\ \A m \in 1..(j - 1) :
                 \E v \in InvsOfCall(i) : v.n = m /\ v.outcome = "returned")
           => /\ Cardinality({v \in InvsOfCall(i) : v.n = j}) = 1
              /\ \A v \in InvsOfCall(i) : v.n = j => v.listener = HeardBy(i)[j].reg
  /\ \A c \in DOMAIN apis :
       (Cardinality(RegsOf(c)) >= 2 /\ TwoWayKeys(apis[c].toMain) # {}) =>
         \E k \in TwoWayKeys(apis[c].toMain) :
           [proc |-> "main", op |-> "fromRenderer", err |-> SecondHandler(k)] \in uncaught
  /\ \A h1 \in mainHandle : \A h2 \in mainHandle : h1.chan = h2.chan => h1 = h2
  /\ \A i \in CallIds : calls[i].prim = "invoke" => Cardinality(InvsOfCall(i)) <= 1

C13_Witness ==
  \E i \in CallIds :
    /\ calls[i].prim = "send"
    /\ calls[i].stage = "delivered"
    /\ Cardinality(RegsOf(calls[i].via)) = 2
    /\ TwoWayKeys(apis[calls[i].via].toMain) # {}
    /\ Cardinality(InvsOfCall(i)) = 2


\* s is an initial part of t
IsPrefix(s, t) ==
  /\ Len(s) <= Len(t)
  /\ \A n \in 1..Len(s) : s[n] = t[n]

ListenersKept ==
  /\ mainHandle \subseteq mainHandle'
  /\ IsPrefix(mainOn, mainOn')
  /\ \A w \in Windows : IsPrefix(rendOn[w], rendOn'[w])

\* C14: the listeners registered with the transport only grow: every step
\* keeps each handle listener, and keeps each on listener of ipcMain and of
\* every window at its place in the registration order.
C14_ListenersOnlyGrow == [][ListenersKept]_vars

C14_Witness ==
  /\ mainHandle # {}
  /\ Len(mainOn) >= 2
  /\ \E w \in Windows : Len(rendOn[w]) >= 1
  /\ Len(regs) >= 2


\* call i was made through a callable of renderer.toMain()
IsRendererCall(i) == calls[i].name = ToMainName(calls[i].key)

\* call i was made through a callable of main.toRenderer()
IsPush(i) == calls[i].name = calls[i].key

\* C15: a renderer-to-main call only invokes main-side handlers registered by
\* fromRenderer, and a main-to-renderer send only invokes fromMain handlers of
\* the renderer it was sent to, also for a name declared in both tables.
C15_NoCrossDelivery ==
  \A i \in CallIds : \A v \in InvsOfCall(i) :
    /\ IsRendererCall(i) \/ IsPush(i)
    /\ IsRendererCall(i) =>
         /\ v.side = "main"
         /\ v.listener \in 1..Len(regs)
         /\ Registered(v.listener, v.key)
    /\ IsPush(i) =>
         /\ v.side = calls[i].win
         /\ v.listener \in 1..Len(subs)
         /\ subs[v.listener].win = v.side
         /\ \E n \in 1..Len(rendOn[v.side]) :
              rendOn[v.side][n].sub = v.listener /\ rendOn[v.side][n].key = v.key

C15_Witness ==
  \E i \in CallIds :
    /\ calls[i].key \in Keys(apis[calls[i].via].toMain) \cap Keys(apis[calls[i].via].toRender)
    /\ IsPush(i)
    /\ calls[i].stage = "delivered"
    /\ InvsOfCall(i) # {}
    /\ \E n \in 1..Len(mainOn) : mainOn[n].chan = calls[i].chan

\* the renderer-to-main direction of the same case
C15_WitnessToMain ==
  \E i \in CallIds :
    /\ calls[i].key \in Keys(apis[calls[i].via].toMain) \cap Keys(apis[calls[i].via].toRender)
    /\ IsRendererCall(i)
    /\ calls[i].stage = "delivered"
    /\ InvsOfCall(i) # {}
    /\ \E n \in 1..Len(rendOn[calls[i].win]) : rendOn[calls[i].win][n].chan = calls[i].chan


\* the fromRenderer calls, made before call i was delivered, whose table
\* declares the key of call i as a one-way action
OneWayRegistrationsFor(i) ==
  {r \in RegistrationsFor(i) :
     TypeOf(apis[regs[r].contract].toMain, calls[i].key) = "oneWay"}

\* C16 as claimed: once two contracts with different ipcKeys have registered a
\* one-way action of the same name, a delivered call through either contract's
\* caller has run the handlers of both.
C16_BothContractsAlwaysRun ==
  \A i \in CallIds :
    (/\ IsRendererCall(i)
     /\ calls[i].prim = "send"
     /\ calls[i].stage = "delivered"
     /\ \E r1 \in OneWayRegistrationsFor(i) : \E r2 \in OneWayRegistrationsFor(i) :
          apis[regs[r1].contract].ipcKey # apis[regs[r2].contract].ipcKey)
    => \A r \in OneWayRegistrationsFor(i) :
         calls[i].key \in regs[r].handlers => \E v \in InvsOfCall(i) : v.listener = r

\* the listener at place j of the delivery of one-way call i has a handler
MainPresent(i, j) == HeardBy(i)[j].key \in regs[HeardBy(i)[j].reg].handlers

\* the listener at place j of the delivery of one-way call i has a handler
\* that was called and returned normally
MainReturned(i, j) ==
  /\ MainPresent(i, j)
  /\ \E v \in InvsOfCall(i) : v.n = j /\ v.outcome = "returned"

\* C16 as amended: the channel of an action does not depend on the namespace
\* key: a one-way call made through one contract's bridge object is heard, when
\* it is delivered, by the listener of every fromRenderer registration that
\* declares the name, of whichever contract, in registration order. It has run
\* the handler of the listener at place j, once, in the main process and with
\* the caller's argument, exactly when that handler is present and the
\* handlers at the places before it are all present and returned normally; a
\* listener that throws ends the emit.
C16_ChannelIgnoresNamespace ==
  \A i \in CallIds :
    (IsRendererCall(i) /\ calls[i].prim = "send" /\ calls[i].stage = "delivered") =>
      LET k == Len(HeardBy(i))
      IN /\ {HeardBy(i)[j].reg : j \in 1..k} = OneWayRegistrationsFor(i)
         /\ \A j \in 1..k : \A m \in 1..k :
              j < m => HeardBy(i)[j].reg < HeardBy(i)[m].reg
         /\ \A j \in 1..k :
              /\ Cardinality({v \in InvsOfCall(i) : v.n = j}) <= 1
              /\ (\E v \in InvsOfCall(i) : v.n = j)
                   <=> (MainPresent(i, j) /\ \A m \in 1..(j - 1) : MainReturned(i, m))
         /\ \A v \in InvsOfCall(i) :
              /\ v.n \in 1..k
              /\ v.side = "main"
              /\ v.args[1] = calls[i].arg
              /\ v.listener = HeardBy(i)[v.n].reg

C16_Witness ==
  \E i \in CallIds :
    /\ IsRendererCall(i)
    /\ calls[i].prim = "send"
    /\ calls[i].stage = "delivered"
    /\ \A v \in InvsOfCall(i) : v.outcome = "returned"
    /\ \E r1 \in OneWayRegistrationsFor(i) : \E r2 \in OneWayRegistrationsFor(i) :
         /\ regs[r1].contract = calls[i].via
         /\ regs[r2].contract # calls[i].via
         /\ apis[regs[r1].contract].ipcKey # apis[regs[r2].contract].ipcKey
         /\ \E v \in InvsOfCall(i) : v.listener = r2


\* the same call when the handler of the contract registered first threw
C16_WitnessThrew ==
  \E i \in CallIds :
    /\ IsRendererCall(i)
    /\ calls[i].prim = "send"
    /\ calls[i].stage = "delivered"
    /\ \E r1 \in OneWayRegistrationsFor(i) : \E r2 \in OneWayRegistrationsFor(i) :
         /\ apis[regs[r1].contract].ipcKey # apis[regs[r2].contract].ipcKey
         /\ \E v \in InvsOfCall(i) : v.listener = r1 /\ v.outcome = "threw"
         /\ \A v \in InvsOfCall(i) : v.listener # r2

\* C17: every main-side handler, one-way or two-way, is called with (the
\* caller's argument, the event); every renderer-side fromMain handler is
\* called with the payload alone.
C17_CallingConventions ==
  \A i \in CallIds : \A v \in InvsOfCall(i) :
    /\ v.side = "main" => v.args = <<calls[i].arg, EventMeta>>
    /\ v.side \in Windows => v.args = <<calls[i].arg>>
    /\ v.side \in Windows \cup {"main"}

C17_Witness ==
  /\ \E i \in CallIds : \E v \in InvsOfCall(i) :
       calls[i].prim = "invoke" /\ v.side = "main" /\ v.args[1] = calls[i].arg
  /\ \E i \in CallIds : \E v \in InvsOfCall(i) :
       calls[i].prim = "send" /\ v.side = "main" /\ v.args[1] = calls[i].arg

\* the renderer-side half of the same case
C17_WitnessRenderer ==
  \E i \in CallIds : \E v \in InvsOfCall(i) :
    calls[i].prim = "webSend" /\ v.side \in Windows /\ Len(v.args) = 1


\* after the step, call i is a transmitted renderer call for a one-way key
OneWaySent(i) ==
  /\ calls'[i].name = ToMainName(calls'[i].key)
  /\ calls'[i].stage # "failed"
  /\ TypeOf(apis'[calls'[i].via].toMain, calls'[i].key) = "oneWay"

\* the step delivers the one-way call i to ipcMain's listeners
OneWayDelivery(i) ==
  /\ OneWaySent(i)
  /\ calls[i].stage = "inflight"
  /\ calls'[i].stage = "delivered"

OneWayFailureUnobserved ==
  /\ \A i \in 1..Len(calls') :
       OneWaySent(i) =>
         /\ calls'[i].ret = "undefined"
         /\ calls'[i].settled = "none"
         /\ calls'[i].value = Undefined
  /\ \A i \in 1..Len(calls) :
       OneWayDelivery(i) =>
         /\ UNCHANGED <<global, exposeLog, preloaded, rendOn, subs>>
         /\ Len(calls') = Len(calls)
         /\ \A j \in 1..Len(calls) : j # i => calls'[j] = calls[j]
         /\ \A v \in invs' \ invs : v.side = "main"
         /\ \A u \in uncaught' \ uncaught : u.proc = "main"

\* C18: the caller of a one-way action has got undefined and holds no
\* promise, before and after delivery and whatever the handler does; the step
\* that runs the handler changes nothing on the renderer side, and an error
\* the handler throws surfaces in the main process only.
C18_OneWayFailureUnobserved == [][OneWayFailureUnobserved]_vars

C18_Witness ==
  \E i \in CallIds :
    /\ IsRendererCall(i)
    /\ calls[i].prim = "send"
    /\ calls[i].stage = "delivered"
    /\ calls[i].ret = "undefined"
    /\ calls[i].settled = "none"
    /\ \E v \in InvsOfCall(i) :
         /\ v.outcome = "threw"
         /\ [proc |-> "main", op |-> "on", err |-> v.value] \in uncaught


\* the step is a preload(): it adds a pair to preloaded
IsPreloadStep == preloaded' # preloaded

\* the step is a main.toRenderer({ window }): it adds a pair to senders
IsToRendererStep == senders' # senders

ExposedWrittenByPreloadOnly ==
  /\ ~IsPreloadStep => UNCHANGED <<global, exposeLog>>
  /\ IsPreloadStep =>
       \A w \in Windows : \A k \in IpcKeys :
         global[w][k].bound => global'[w][k] = global[w][k]
  /\ IsToRendererStep =>
       UNCHANGED <<calls, invs, mainHandle, mainOn, rendOn, regs, subs, uncaught>>

\* C19: the bridge object in a window's global scope is written by preload()
\* only, and once bound it is not written again; every other operation and
\* every delivery leaves it as it is. main.toRenderer({ window }) alone sends
\* no message, registers no listener and runs no handler.
C19_ExposedWrittenByPreloadOnly == [][ExposedWrittenByPreloadOnly]_vars

C19_Witness ==
  /\ senders # {}
  /\ calls = <<>>
  /\ \E w \in Windows : \E k \in IpcKeys : global[w][k].bound
  /\ Len(regs) >= 1
  /\ Len(subs) >= 1

\* the api object in use: a push issued and delivered with the bridge bound
C19_WitnessInUse ==
  /\ \E i \in CallIds : calls[i].prim = "webSend" /\ calls[i].stage = "delivered"
                        /\ <<calls[i].via, calls[i].win>> \in senders
                        /\ global[calls[i].win][RendererKey(calls[i].via)].bound


\* the fromMain calls among s that registered a handler for the action of
\* push i in the window it went to
HandlersAmong(i, s) ==
  {n \in s : /\ subs[n].win = calls[i].win
             /\ ~subs[n].threw
             /\ \E m \in 1..Len(rendOn[calls[i].win]) :
                  /\ rendOn[calls[i].win][m].sub = n
                  /\ rendOn[calls[i].win][m].chan = calls[i].chan}

\* C20 as claimed: a push sent before its window had called fromMain never
\* runs a handler registered after it was sent.
C20_SentBeforeFromMainNeverHandled ==
  \A i \in CallIds :
    (IsPush(i) /\ \A n \in 1..calls[i].at : subs[n].win # calls[i].win) =>
      \A v \in InvsOfCall(i) : v.listener <= calls[i].at

\* C20 as amended: every renderer-side listener comes from a fromMain call of
\* its window, none from preload(); a push runs only handlers registered in
\* its window when it reaches the renderer, all of them when they are present
\* and return normally, so one that arrives before fromMain runs no handler,
\* then or later, while one still in flight when fromMain is called runs the
\* new handler.
C20_PushNotBuffered ==
  /\ \A w \in Windows : \A m \in 1..Len(rendOn[w]) :
       /\ rendOn[w][m].sub \in 1..Len(subs)
       /\ subs[rendOn[w][m].sub].win = w
  /\ \A i \in CallIds :
       IsPush(i) =>
         /\ calls[i].stage = "inflight" => InvsOfCall(i) = {}
         /\ calls[i].stage = "delivered" =>
              /\ {v.listener : v \in InvsOfCall(i)} \subseteq HandlersAmong(i, 1..calls[i].seen)
              /\ (\A j \in 1..Len(PushHeardBy(i)) : PushReturned(i, j)) =>
                   {v.listener : v \in InvsOfCall(i)} = HandlersAmong(i, 1..calls[i].seen)

\* a push that arrived before fromMain, with a handler registered since
C20_Witness ==
  \E i \in CallIds :
    /\ IsPush(i)
    /\ calls[i].stage = "delivered"
    /\ HandlersAmong(i, 1..calls[i].seen) = {}
    /\ HandlersAmong(i, 1..Len(subs)) # {}
    /\ InvsOfCall(i) = {}

\* a push in flight while fromMain was called, handled on arrival
C20_WitnessInFlight ==
  \E i \in CallIds : \E v \in InvsOfCall(i) :
    /\ IsPush(i)
    /\ \A n \in 1..calls[i].at : subs[n].win # calls[i].win
    /\ v.listener > calls[i].at

====
